---- MODULE Spec2Model ----
(***************************************************************************)
(* Model of the price-alert engine of the portfolio tracker               *)
(* (src/src/alerts.py): the AlertManager that owns an in-memory list of   *)
(* alert records, the JSON file it loads from and saves to, and the       *)
(* check_alerts loop that fetches a price per active alert, decides       *)
(* whether the alert triggers, emits the notification, marks the record   *)
(* and saves the whole collection.                                        *)
(***************************************************************************)
EXTENDS Integers, Sequences, FiniteSets, TLC

(***************************************************************************)
(* Bounds of the model.                                                    *)
(***************************************************************************)
\* Number of add_alert calls in a behaviour (the clock behind created_at).
MaxAdds == 3
\* Number of alerts the collection holds at a time.
MaxAlerts == 2
\* Number of faults of the environment in a behaviour: failed writes of the
\* alerts file and, in SpecCrash, kills of the process.
MaxFaults == 1
\* Seconds between two checks of the monitor (check_interval, scaled down).
check_interval == 2

(***************************************************************************)
(* Inputs.                                                                 *)
(***************************************************************************)
\* Symbols as typed by the caller; add_alert upper-cases them.
SymbolInputs == {"x"}
\* Conditions a caller may pass to add_alert ("sideways": a malformed one).
ConditionInputs == {"above", "below", "sideways"}
\* Target prices a caller may pass to add_alert (0: a non-positive one).
TargetInputs == {0, 2}
\* The definitions a caller passes: the well-formed ones, one with a
\* malformed condition and one with a non-positive target.
DefinitionInputs ==
    {d \in ConditionInputs \X TargetInputs : d[2] > 0 \/ d[1] = "above"}
\* Notification types (add_alert's default is "desktop").
NotificationTypes == {"desktop"}
\* Ids a caller may pass to remove_alert.
IdInputs == 0 .. MaxAdds
\* created_at values.
Stamps == 1 .. MaxAdds
\* Prices fetch_stock_data may report: below, at and above the target 2.
Prices == {1, 2, 3}
\* Most rows of a portfolio.
MaxPositions == 2
\* The values a row of the portfolio file holds, and the prices fetched for
\* it (0.0 when the fetch fails).
Quantities == {0, 1, 2}
BuyPrices == {0, 2}
CurrentPrices == {0, 2, 3}
\* The symbol of each row.
RowSymbols == <<"AAA", "BBB", "CCC", "DDD">>
\* The API clients that post to /users/.
Clients == {"c1", "c2", "c3"}
\* The emails they post.
Emails == {"a@example.com", "b@example.com"}

VARIABLES
    alerts,         \* self.alerts['price_alerts'] of the AlertManager
    store,          \* the alerts file: [exists, price_alerts]
    clock,          \* number of add_alert calls so far (datetime.now())
    pc,             \* position of check_alerts: idle, fetch, evaluated, save
    active_alerts,  \* check_alerts' snapshot: positions in alerts
    it,             \* position of the for loop's iterator in active_alerts
    alert,          \* the loop variable: a position in alerts (0: unbound)
    stock_data,     \* local of check_alerts: unset, error or price
    current_price,  \* local of check_alerts (0: unset)
    triggered,      \* local of check_alerts
    fetched,        \* positions whose price was fetched in this cycle
    notified,       \* per created_at: notifications emitted so far
    ret,            \* outcome of the last call on the manager
    faults,         \* failed writes and kills so far
    mon,            \* position of start_alert_monitor's loop
    wait,           \* seconds until the scheduled job is due
    elapsed,        \* seconds the running check_job has taken so far
    running,        \* invocations of check_job in progress
    table,          \* rows of the table list_alerts printed last
    portfolio,      \* the DataFrame given to PortfolioAnalyzer
    out,            \* outcome of the last PortfolioAnalyzer call
    users,          \* rows of the users table
    req             \* per API client: its POST /users/ request

alert_vars == <<alerts, store, clock, pc, active_alerts, it, alert,
                stock_data, current_price, triggered, fetched, notified, ret,
                faults>>

monitor_vars == <<mon, wait, elapsed, running>>

analytics_vars == <<portfolio, out>>

user_vars == <<users, req>>

vars == <<alert_vars, monitor_vars, table, analytics_vars, user_vars>>

(***************************************************************************)
(* Pure helpers of the code.                                               *)
(***************************************************************************)
\* The symbol stored as it was typed.
upper_skipped(s) ==
    s

\* str.upper() on the symbols of the model.
Upper(s) ==
    CASE s = "x" -> "X"
      [] s = "y" -> "Y"
      [] OTHER -> s

\* _load_alerts: the file's collection, or an empty one when no file exists.
load_alerts(file) ==
    IF file.exists THEN file.price_alerts ELSE <<>>

\* What _save_alerts leaves in the file when the write succeeds.
saved_file(as) ==
    [exists |-> TRUE, price_alerts |-> as]

\* The id add_alert assigns: the current length of the collection.
new_id(as) ==
    Len(as)

\* The record add_alert builds.
new_alert(as, symbol, condition, target_price, notification_type, now) ==
    [id |-> new_id(as),
     symbol |-> Upper(symbol),
     condition |-> condition,
     target_price |-> target_price,
     notification_type |-> notification_type,
     created_at |-> now,
     triggered |-> FALSE]

\* Positions of the records with the given id.
positions_of(as, alert_id) ==
    {i \in DOMAIN as : as[i].id = alert_id}

\* The position remove_alert's loop stops at: the first record with the id
\* (0 when the loop runs to its end).
found_at(as, alert_id) ==
    IF positions_of(as, alert_id) = {}
    THEN 0
    ELSE CHOOSE i \in positions_of(as, alert_id) :
             \A j \in positions_of(as, alert_id) : i <= j

\* Variant of delete_at: del list[i:], the tail goes with the record.
delete_from(as, i) ==
    [j \in 1 .. (i - 1) |-> as[j]]

\* del list[i] (i is a 1-based position).
delete_at(as, i) ==
    [j \in 1 .. (Len(as) - 1) |-> IF j < i THEN as[j] ELSE as[j + 1]]

\* check_alerts' snapshot: the positions of the untriggered records, in order.
RECURSIVE active_from(_, _)
active_from(as, i) ==
    IF i > Len(as)
    THEN <<>>
    ELSE IF ~as[i].triggered
         THEN <<i>> \o active_from(as, i + 1)
         ELSE active_from(as, i + 1)

\* Variant of active_of: the snapshot takes every record, triggered or not.
active_all(as) ==
    [i \in 1 .. Len(as) |-> i]

active_of(as) ==
    active_from(as, 1)

\* Variant of should_trigger: strict comparisons.
should_trigger_strict(a, price) ==
    IF a.condition = "below" /\ price < a.target_price
    THEN TRUE
    ELSE IF a.condition = "above" /\ price > a.target_price
         THEN TRUE
         ELSE FALSE

\* The trigger decision of check_alerts for one alert and one fetched price.
should_trigger(a, price) ==
    IF a.condition = "below" /\ price <= a.target_price
    THEN TRUE
    ELSE IF a.condition = "above" /\ price >= a.target_price
         THEN TRUE
         ELSE FALSE

\* Variant of mark_triggered: the flags of the whole list are rewritten, only
\* the current record's is set.
mark_only_current(as, i) ==
    [j \in DOMAIN as |-> [as[j] EXCEPT !.triggered = (j = i)]]

\* Variant of mark_triggered: the record is looked up by its id, and every
\* record with that id is marked.
mark_same_id(as, i) ==
    [j \in DOMAIN as |->
        IF as[j].id = as[i].id THEN [as[j] EXCEPT !.triggered = TRUE]
                               ELSE as[j]]

\* alert['triggered'] = True on the record the loop variable refers to.
mark_triggered(as, i) ==
    [as EXCEPT ![i].triggered = TRUE]

(***************************************************************************)
(* Initial state: first run, no alerts file; AlertManager() has loaded.    *)
(***************************************************************************)
no_file ==
    [exists |-> FALSE, price_alerts |-> <<>>]

\* AlertManager.__init__ on the first run.
manager_init ==
    /\ store = no_file
    /\ alerts = load_alerts(no_file)
    /\ clock = 0
    /\ pc = "idle"
    /\ active_alerts = <<>>
    /\ it = 0
    /\ alert = 0
    /\ stock_data = "unset"
    /\ current_price = 0
    /\ triggered = FALSE
    /\ fetched = {}
    /\ notified = [c \in Stamps |-> 0]
    /\ ret = "none"
    /\ faults = 0

\* start_alert_monitor has not been called.
monitor_off ==
    /\ mon = "off"
    /\ wait = 0
    /\ elapsed = 0
    /\ running = 0

\* pd.DataFrame(): no columns, no rows.
no_portfolio ==
    [columns |-> {}, rows |-> <<>>]

\* No method of a PortfolioAnalyzer has been called.
no_result ==
    [op |-> "none", kind |-> "none", value |-> <<>>]

\* No PortfolioAnalyzer has been built.
analytics_off ==
    /\ portfolio = no_portfolio
    /\ out = no_result

\* The requests no client has sent yet.
no_requests ==
    [c \in Clients |-> [state |-> "none", email |-> "", status |-> 0,
                        detail |-> "", body |-> ""]]

\* Base.metadata.create_all on a new database: the users table is empty.
users_off ==
    /\ users = <<>>
    /\ req = no_requests

\* Nothing printed: list_alerts was not the last call.
no_table ==
    [title |-> "", rows |-> <<>>]

Init ==
    /\ manager_init
    /\ monitor_off
    /\ table = no_table
    /\ analytics_off
    /\ users_off

(***************************************************************************)
(* _save_alerts.  The write either succeeds and replaces the file by the    *)
(* whole in-memory collection, or raises (os.makedirs or open fails) and    *)
(* leaves the file as it was.                                               *)
(***************************************************************************)
save_ok(as) ==
    /\ store' = saved_file(as)
    /\ faults' = faults

save_raises ==
    /\ faults < MaxFaults
    /\ faults' = faults + 1
    /\ store' = store

(***************************************************************************)
(* add_alert(symbol, condition, target_price, notification_type).          *)
(***************************************************************************)
add_alert(symbol, condition, target_price, notification_type) ==
    /\ pc = "idle"
    /\ clock < MaxAdds
    /\ Len(alerts) < MaxAlerts
    /\ clock' = clock + 1
    /\ alerts' = Append(alerts, new_alert(alerts, symbol, condition,
                                          target_price, notification_type,
                                          clock + 1))
    /\ \/ save_ok(alerts') /\ ret' = "True"
       \/ save_raises /\ ret' = "raised"
    /\ UNCHANGED <<pc, active_alerts, it, alert, stock_data, current_price,
                   triggered, fetched, notified>>

AddAlert ==
    \E symbol \in SymbolInputs, d \in DefinitionInputs,
       notification_type \in NotificationTypes :
        add_alert(symbol, d[1], d[2], notification_type)

(***************************************************************************)
(* remove_alert(alert_id).                                                 *)
(***************************************************************************)
remove_found(alert_id) ==
    /\ found_at(alerts, alert_id) # 0
    /\ alerts' = delete_at(alerts, found_at(alerts, alert_id))
    /\ \/ save_ok(alerts') /\ ret' = "True"
       \/ save_raises /\ ret' = "raised"

\* Variant of remove_not_found: the collection is saved on this path too.
remove_not_found_saves(alert_id) ==
    /\ found_at(alerts, alert_id) = 0
    /\ ret' = "False"
    /\ alerts' = alerts
    /\ save_ok(alerts)

remove_not_found(alert_id) ==
    /\ found_at(alerts, alert_id) = 0
    /\ ret' = "False"
    /\ UNCHANGED <<alerts, store, faults>>

remove_alert(alert_id) ==
    /\ pc = "idle"
    /\ \/ remove_found(alert_id)
       \/ remove_not_found(alert_id)
    /\ UNCHANGED <<clock, pc, active_alerts, it, alert, stock_data,
                   current_price, triggered, fetched, notified>>

RemoveAlert ==
    \E alert_id \in IdInputs : remove_alert(alert_id)

(***************************************************************************)
(* check_alerts, one step per statement that the outside can observe.      *)
(***************************************************************************)
\* The loop is exhausted: check_alerts returns None and its locals are gone.
end_loop ==
    /\ pc' = "idle"
    /\ it' = 0
    /\ alert' = 0
    /\ stock_data' = "unset"
    /\ current_price' = 0
    /\ triggered' = FALSE
    /\ active_alerts' = <<>>
    /\ fetched' = {}
    /\ ret' = "None"

\* The for statement: bind the next alert of the snapshot, or end the loop.
\* `done` are the positions fetched so far in this cycle, `data` is the
\* value of stock_data; current_price and triggered keep the values of the
\* last iteration that assigned them.
next_alert(snapshot, done, data) ==
    IF it < Len(snapshot)
    THEN /\ it' = it + 1
         /\ alert' = snapshot[it + 1]
         /\ pc' = "fetch"
         /\ stock_data' = data
         /\ active_alerts' = snapshot
         /\ fetched' = done
         /\ ret' = "pending"
         /\ UNCHANGED <<current_price, triggered>>
    ELSE end_loop

\* Variant of on_fetch_error: `break` in place of `continue`.
break_on_fetch_error ==
    end_loop

\* `continue` after an error dict from fetch_stock_data.
on_fetch_error ==
    next_alert(active_alerts, fetched \cup {alert}, "error")

\* Variant of on_exception: the except clause encloses the loop, not its body.
exception_ends_loop ==
    end_loop

\* The except clause of the loop body: print the error, go on with the loop.
on_exception ==
    next_alert(active_alerts, fetched, stock_data)

\* active_alerts = [a for a in ... if not a['triggered']], then the for.
StartCheck ==
    /\ pc = "idle"
    /\ next_alert(active_of(alerts), {}, "unset")
    /\ UNCHANGED <<alerts, store, clock, notified, faults>>

\* fetch_stock_data returns an error dict.
FetchError ==
    /\ pc = "fetch"
    /\ on_fetch_error
    /\ UNCHANGED <<alerts, store, clock, notified, faults>>

\* fetch_stock_data returns a price; the trigger decision is taken.
FetchPrice ==
    /\ pc = "fetch"
    /\ fetched' = fetched \cup {alert}
    /\ stock_data' = "price"
    /\ \E price \in Prices :
        /\ current_price' = price
        /\ triggered' = should_trigger(alerts[alert], price)
    /\ pc' = "evaluated"
    /\ UNCHANGED <<alerts, store, clock, active_alerts, it, alert, notified,
                   ret, faults>>

\* `if triggered:` is false.
NotTriggered ==
    /\ pc = "evaluated"
    /\ ~triggered
    /\ next_alert(active_alerts, fetched, stock_data)
    /\ UNCHANGED <<alerts, store, clock, notified, faults>>

\* _trigger_alert returns: the notification is out.
emit_ok ==
    /\ notified' = [notified EXCEPT ![alerts[alert].created_at] = @ + 1]
    /\ pc' = "save"
    /\ UNCHANGED <<active_alerts, it, alert, stock_data, current_price,
                   triggered, fetched, ret>>

\* Variant of emit_raises: _trigger_alert swallows the failure and returns.
emit_failure_swallowed ==
    /\ alerts[alert].notification_type = "desktop"
    /\ notified' = notified
    /\ pc' = "save"
    /\ UNCHANGED <<active_alerts, it, alert, stock_data, current_price,
                   triggered, fetched, ret>>

\* notification.notify raises: nothing is shown, the except clause runs.
emit_raises ==
    /\ alerts[alert].notification_type = "desktop"
    /\ notified' = notified
    /\ on_exception

TriggerAlert ==
    /\ pc = "evaluated"
    /\ triggered
    /\ \/ emit_ok
       \/ emit_raises
    /\ UNCHANGED <<alerts, store, clock, faults>>

\* alert['triggered'] = True; self._save_alerts().
MarkAndSave ==
    /\ pc = "save"
    /\ alerts' = mark_triggered(alerts, alert)
    /\ \/ save_ok(alerts') /\ next_alert(active_alerts, fetched, stock_data)
       \/ save_raises /\ on_exception
    /\ UNCHANGED <<clock, notified>>

(***************************************************************************)
(* The process is killed and started again: AlertManager() loads the file. *)
(***************************************************************************)
Crash ==
    /\ faults < MaxFaults
    /\ faults' = faults + 1
    /\ alerts' = load_alerts(store)
    /\ pc' = "idle"
    /\ active_alerts' = <<>>
    /\ it' = 0
    /\ alert' = 0
    /\ stock_data' = "unset"
    /\ current_price' = 0
    /\ triggered' = FALSE
    /\ fetched' = {}
    /\ ret' = "restarted"
    /\ UNCHANGED <<store, clock, notified>>

(***************************************************************************)
(* handle_alerts: one run of the command line builds an AlertManager of    *)
(* its own from the file, makes one call on it and exits.  Seen from       *)
(* another process, the run reads the file and writes it back.             *)
(***************************************************************************)
\* The manager's fields and the locals of its check_alerts.
manager_memory ==
    <<alerts, pc, active_alerts, it, alert, stock_data, current_price,
      triggered, fetched, notified, ret>>

\* --add-alert SYMBOL CONDITION PRICE: the condition is validated (line 48),
\* the price only converted.
CliAddAlert ==
    /\ clock < MaxAdds
    /\ Len(load_alerts(store)) < MaxAlerts
    /\ clock' = clock + 1
    /\ \E symbol \in SymbolInputs, d \in DefinitionInputs,
          notification_type \in NotificationTypes :
        /\ d[1] \in {"above", "below"}
        /\ \/ save_ok(Append(load_alerts(store),
                             new_alert(load_alerts(store), symbol, d[1], d[2],
                                       notification_type, clock + 1)))
           \/ save_raises
    /\ UNCHANGED manager_memory
    /\ UNCHANGED <<monitor_vars, table, analytics_vars, user_vars>>

\* --remove-alert ID.
CliRemoveAlert ==
    /\ \E alert_id \in IdInputs :
        /\ found_at(load_alerts(store), alert_id) # 0
        /\ \/ save_ok(delete_at(load_alerts(store),
                                found_at(load_alerts(store), alert_id)))
           \/ save_raises
    /\ UNCHANGED clock
    /\ UNCHANGED manager_memory
    /\ UNCHANGED <<monitor_vars, table, analytics_vars, user_vars>>

(***************************************************************************)
(* list_alerts: a table with one row per untriggered record.               *)
(***************************************************************************)
\* f"₹{target_price:,.2f}": currency sign, units and two decimals.
format_price(target_price) ==
    [sign |-> "₹", units |-> target_price, decimals |-> "00"]

\* strftime('%Y-%m-%d %H:%M') drops the seconds: two add_alert calls fall
\* in one minute.
format_created(created_at) ==
    [minute |-> (created_at + 1) \div 2]

\* The row table.add_row receives for one record.
row_of(a) ==
    [id |-> a.id,
     symbol |-> a.symbol,
     condition |-> a.condition,
     target_price |-> format_price(a.target_price),
     created |-> format_created(a.created_at)]

\* Variant of listed_of: the table takes every record, triggered or not.
listed_all(as) ==
    [i \in 1 .. Len(as) |-> i]

\* The list comprehension of list_alerts: positions of untriggered records.
listed_of(as) ==
    active_from(as, 1)

list_alerts(as) ==
    [title |-> "Active Price Alerts",
     rows |-> [k \in DOMAIN listed_of(as) |-> row_of(as[listed_of(as)[k]])]]

ListAlerts ==
    /\ pc = "idle"
    /\ table' = list_alerts(alerts)
    /\ UNCHANGED <<alert_vars, monitor_vars, analytics_vars, user_vars>>

(***************************************************************************)
(* start_alert_monitor: one thread that loads the alerts, schedules        *)
(* check_job every check_interval seconds and then alternates              *)
(* schedule.run_pending() and time.sleep(1) until Ctrl+C.                  *)
(***************************************************************************)
\* AlertManager(), schedule.every(check_interval).seconds.do(check_job).
StartMonitor ==
    /\ mon = "off"
    /\ pc = "idle"
    /\ alerts' = load_alerts(store)
    /\ mon' = "run_pending"
    /\ wait' = check_interval
    /\ elapsed' = 0
    /\ running' = 0
    /\ UNCHANGED <<store, clock, pc, active_alerts, it, alert, stock_data,
                   current_price, triggered, fetched, notified, ret, faults>>
    /\ UNCHANGED <<table, analytics_vars, user_vars>>

\* Variant of job_is_due: run_pending is called from a timer thread, whether
\* or not the job of the last call has returned.
job_is_due_threaded ==
    /\ mon \in {"run_pending", "job"}
    /\ wait = 0

\* run_pending, called by the loop, finds the job's next run reached.
job_is_due ==
    /\ mon = "run_pending"
    /\ wait = 0

\* run_pending finds nothing to run and returns.
RunPendingIdle ==
    /\ mon = "run_pending"
    /\ wait > 0
    /\ mon' = "sleep"
    /\ UNCHANGED <<wait, elapsed, running>>
    /\ UNCHANGED <<alert_vars, table, analytics_vars, user_vars>>

\* run_pending calls check_job, in the thread of the loop.
CheckJob ==
    /\ job_is_due
    /\ mon' = "job"
    /\ running' = running + 1
    /\ elapsed' = 0
    /\ UNCHANGED wait
    /\ UNCHANGED <<alert_vars, table, analytics_vars, user_vars>>

\* time.sleep(1).
Sleep ==
    /\ mon = "sleep"
    /\ mon' = "run_pending"
    /\ wait' = IF wait > 0 THEN wait - 1 ELSE 0
    /\ UNCHANGED <<elapsed, running>>
    /\ UNCHANGED <<alert_vars, table, analytics_vars, user_vars>>

\* A second passes while check_job runs (the fetches take their time).
JobTick ==
    /\ mon = "job"
    /\ elapsed <= check_interval
    /\ elapsed' = elapsed + 1
    /\ wait' = 0
    /\ UNCHANGED <<mon, running>>
    /\ UNCHANGED <<alert_vars, table, analytics_vars, user_vars>>

\* check_job returns to run_pending, which schedules the next run
\* check_interval seconds from now and returns to the loop.
job_returns ==
    /\ mon' = "sleep"
    /\ wait' = check_interval
    /\ running' = running - 1
    /\ elapsed' = 0

\* One step of check_alerts, taken inside check_job.
job(step) ==
    /\ mon = "job"
    /\ step
    /\ IF pc' = "idle" THEN job_returns ELSE UNCHANGED monitor_vars
    /\ UNCHANGED <<table, analytics_vars, user_vars>>

\* Ctrl+C: KeyboardInterrupt is raised at the statement the thread is at.
\* No except clause of check_alerts catches it (except Exception does not),
\* so it unwinds to the except clause of the loop: the monitor stops, and a
\* check in progress is abandoned where it was.
KeyboardInterrupt ==
    /\ mon \in {"run_pending", "sleep", "job"}
    /\ mon' = "stopped"
    /\ running' = 0
    /\ UNCHANGED <<wait, elapsed>>
    /\ UNCHANGED <<alert_vars, table, analytics_vars, user_vars>>

(***************************************************************************)
(* PortfolioAnalyzer.  A DataFrame is [columns, rows]; a float is a        *)
(* fraction or one of inf, -inf, nan (rounding is left out).               *)
(***************************************************************************)
\* The columns of the portfolio file.
FileColumns == {"symbol", "quantity", "buy_price", "purchase_date"}

\* The columns after enrich_portfolio_with_live_data, or as the API's
\* Portfolio builds the frame.
LiveColumns == FileColumns \cup {"current_price"}

\* The columns calculate_position_metrics adds.
MetricColumns ==
    {"investment", "current_value", "gain_loss", "gain_loss_percent", "weight"}

PositionInputs ==
    [quantity : Quantities, buy_price : BuyPrices,
     current_price : CurrentPrices]

\* A loaded and enriched portfolio with the given rows.
live_frame(f) ==
    [columns |-> LiveColumns,
     rows |-> [i \in DOMAIN f |->
                 [symbol |-> RowSymbols[i],
                  quantity |-> f[i].quantity,
                  buy_price |-> f[i].buy_price,
                  current_price |-> f[i].current_price]]]

\* The frames the program hands to PortfolioAnalyzer: no file (no columns),
\* a file with a header only (enrich returns it as it is), the API's empty
\* frame (current_price added), and files with rows.
PortfolioInputs ==
    {no_portfolio,
     [columns |-> FileColumns, rows |-> <<>>],
     [columns |-> LiveColumns, rows |-> <<>>]}
    \cup UNION {{live_frame(f) : f \in [1 .. n -> PositionInputs]} :
                n \in 1 .. MaxPositions}

\* A new PortfolioAnalyzer on a frame the program has loaded.
InitAnalytics ==
    /\ manager_init
    /\ monitor_off
    /\ table = no_table
    /\ portfolio \in PortfolioInputs
    /\ out = no_result
    /\ users_off

fraction(n, d) == [kind |-> "num", num |-> n, den |-> d]
inf == [kind |-> "inf", num |-> 1, den |-> 0]
neg_inf == [kind |-> "-inf", num |-> -1, den |-> 0]
nan == [kind |-> "nan", num |-> 0, den |-> 0]

\* Float division as numpy does it on a column: no exception on zero.
float_div(n, d) ==
    IF d = 0
    THEN IF n > 0 THEN inf ELSE IF n < 0 THEN neg_inf ELSE nan
    ELSE IF d < 0 THEN fraction(-n, -d) ELSE fraction(n, d)

\* a <= b on floats that are not nan (two nan count as equal: where every
\* value is nan, the first row is taken).
float_leq(a, b) ==
    IF a.kind = "-inf" \/ b.kind = "inf"
    THEN TRUE
    ELSE IF a.kind = "inf" \/ b.kind = "-inf"
         THEN FALSE
         ELSE a.num * b.den <= b.num * a.den

\* Series.sum().
RECURSIVE sum(_)
sum(xs) ==
    IF xs = <<>> THEN 0 ELSE Head(xs) + sum(Tail(xs))

ok(op, value) == [op |-> op, kind |-> "ok", value |-> value]
raised(op, error) == [op |-> op, kind |-> "raised", value |-> error]

\* df[column] raises KeyError when the frame has no such column.
has_columns(p, columns) ==
    columns \subseteq p.columns

investments(rows) ==
    [i \in DOMAIN rows |-> rows[i].quantity * rows[i].buy_price]

current_values(rows) ==
    [i \in DOMAIN rows |-> rows[i].quantity * rows[i].current_price]

\* calculate_basic_metrics: the one division is guarded.
calculate_basic_metrics(p) ==
    IF ~has_columns(p, {"quantity", "buy_price", "current_price"})
    THEN raised("basic", "KeyError")
    ELSE LET total_investment == sum(investments(p.rows))
             current_value == sum(current_values(p.rows))
             total_gain_loss == current_value - total_investment
         IN  ok("basic",
                [total_investment |-> total_investment,
                 current_value |-> current_value,
                 total_gain_loss |-> total_gain_loss,
                 gain_loss_percent |->
                     IF total_investment # 0
                     THEN fraction(total_gain_loss * 100, total_investment)
                     ELSE fraction(0, 1)])

\* Variant of working_frame: df = self.portfolio, the caller's own frame.
working_frame_shared(p) ==
    [frame |-> p, shared |-> TRUE]

\* df = self.portfolio.copy(): a frame of its own with the same content.
working_frame(p) ==
    [frame |-> p, shared |-> FALSE]

\* The five column assignments of calculate_position_metrics on df; the two
\* divisions are column-wise and unguarded.
with_metrics(df) ==
    IF ~has_columns(df, {"quantity", "buy_price", "current_price"})
    THEN raised("positions", "KeyError")
    ELSE LET investment == investments(df.rows)
             current_value == current_values(df.rows)
             total == sum(current_value)
         IN  ok("positions",
                [columns |-> df.columns \cup MetricColumns,
                 rows |-> [i \in DOMAIN df.rows |->
                    [symbol |-> df.rows[i].symbol,
                     quantity |-> df.rows[i].quantity,
                     buy_price |-> df.rows[i].buy_price,
                     current_price |-> df.rows[i].current_price,
                     investment |-> investment[i],
                     current_value |-> current_value[i],
                     gain_loss |-> current_value[i] - investment[i],
                     gain_loss_percent |->
                         float_div((current_value[i] - investment[i]) * 100,
                                   investment[i]),
                     weight |-> float_div(current_value[i] * 100, total)]]])

\* calculate_position_metrics: its result, and the caller's frame after it.
calculate_position_metrics(p) ==
    LET df == working_frame(p)
        result == with_metrics(df.frame)
    IN  [result |-> result,
         caller |-> IF df.shared /\ result.kind = "ok"
                    THEN result.value
                    ELSE p]

\* Positions of the rows whose value in the column is not nan.
not_nan(rows, column) ==
    {i \in DOMAIN rows : rows[i][column].kind # "nan"}

\* Variant of first_largest: nlargest(1, keep='last').
last_largest(rows, column, among) ==
    CHOOSE i \in among :
        /\ \A j \in among : float_leq(rows[j][column], rows[i][column])
        /\ \A j \in among :
            j > i => ~float_leq(rows[i][column], rows[j][column])

\* The first position with the largest value of the column among `among`.
first_largest(rows, column, among) ==
    CHOOSE i \in among :
        /\ \A j \in among : float_leq(rows[j][column], rows[i][column])
        /\ \A j \in among :
            j < i => ~float_leq(rows[i][column], rows[j][column])

\* The first position with the smallest value of the column among `among`.
first_smallest(rows, column, among) ==
    CHOOSE i \in among :
        /\ \A j \in among : float_leq(rows[i][column], rows[j][column])
        /\ \A j \in among :
            j < i => ~float_leq(rows[j][column], rows[i][column])

\* get_best_worst_performers: nlargest(1)/nsmallest(1) put nan rows last;
\* iloc[0] raises IndexError on an empty frame.
get_best_worst_performers(position_metrics) ==
    IF position_metrics.kind = "raised"
    THEN raised("best_worst", position_metrics.value)
    ELSE LET rows == position_metrics.value.rows
             among == IF not_nan(rows, "gain_loss_percent") = {}
                      THEN DOMAIN rows
                      ELSE not_nan(rows, "gain_loss_percent")
         IN  IF rows = <<>>
             THEN raised("best_worst", "IndexError")
             ELSE ok("best_worst",
                     [best_performer |->
                          rows[first_largest(rows, "gain_loss_percent",
                                             among)].symbol,
                      worst_performer |->
                          rows[first_smallest(rows, "gain_loss_percent",
                                              among)].symbol])

\* Variant of winners: a position with gain_loss 0 counts as winning.
winners_or_flat(rows) ==
    {i \in DOMAIN rows : rows[i].gain_loss >= 0}

\* position_metrics[position_metrics['gain_loss'] > 0].
winners(rows) ==
    {i \in DOMAIN rows : rows[i].gain_loss > 0}

\* What idxmax on a column of nan only ends in: ValueError, or a nan label
\* that .loc rejects with KeyError, by pandas version.
IdxmaxErrors == {"ValueError", "KeyError"}

\* calculate_risk_metrics: idxmax raises on an empty column and on a column
\* of nan only; the profit factor is inf whenever there are no losses.
calculate_risk_metrics(position_metrics, error) ==
    IF position_metrics.kind = "raised"
    THEN raised("risk", position_metrics.value)
    ELSE LET rows == position_metrics.value.rows
             weighted == not_nan(rows, "weight")
             gains == sum([i \in DOMAIN rows |->
                            IF rows[i].gain_loss > 0
                            THEN rows[i].gain_loss ELSE 0])
             loss_sum == sum([i \in DOMAIN rows |->
                               IF rows[i].gain_loss < 0
                               THEN rows[i].gain_loss ELSE 0])
             losses == IF loss_sum < 0 THEN -loss_sum ELSE loss_sum
         IN  IF rows = <<>>
             THEN raised("risk", "ValueError")
             ELSE IF weighted = {}
             THEN raised("risk", error)
             ELSE ok("risk",
                     [max_weight |->
                          rows[first_largest(rows, "weight", weighted)].weight,
                      concentration_stock |->
                          rows[first_largest(rows, "weight", weighted)].symbol,
                      profit_factor |->
                          IF losses # 0 THEN fraction(gains, losses) ELSE inf,
                      winning_positions |-> Cardinality(winners(rows)),
                      losing_positions |->
                          Cardinality({i \in DOMAIN rows :
                                         rows[i].gain_loss < 0})])

beside_analytics == <<alert_vars, monitor_vars, table, user_vars>>

CalculateBasicMetrics ==
    /\ out' = calculate_basic_metrics(portfolio)
    /\ UNCHANGED portfolio
    /\ UNCHANGED beside_analytics

CalculatePositionMetrics ==
    /\ out' = calculate_position_metrics(portfolio).result
    /\ portfolio' = calculate_position_metrics(portfolio).caller
    /\ UNCHANGED beside_analytics

GetBestWorstPerformers ==
    /\ out' = get_best_worst_performers(
                  calculate_position_metrics(portfolio).result)
    /\ portfolio' = calculate_position_metrics(portfolio).caller
    /\ UNCHANGED beside_analytics

CalculateRiskMetrics ==
    /\ \E error \in IdxmaxErrors :
        out' = calculate_risk_metrics(
                   calculate_position_metrics(portfolio).result, error)
    /\ portfolio' = calculate_position_metrics(portfolio).caller
    /\ UNCHANGED beside_analytics

(***************************************************************************)
(* POST /users/.  The endpoint is a plain def, so requests run in threads  *)
(* of their own: the lookup of main.create_user, the lookup of             *)
(* crud.create_user and the commit are separate steps of a request.  A row *)
(* of users is [id, email, is_active]; the password hash is left out.      *)
(***************************************************************************)
\* Variant of get_user_by_email: the lookup finds nothing.
get_user_none(us, email) ==
    0

\* db.query(User).filter(User.email == email).first(): the position of the
\* first row with the email, 0 for None.
get_user_by_email(us, email) ==
    IF \E i \in DOMAIN us : us[i].email = email
    THEN CHOOSE i \in DOMAIN us :
             /\ us[i].email = email
             /\ \A j \in DOMAIN us : us[j].email = email => i <= j
    ELSE 0

\* The unique index on users.email rejects the insert.
violates_unique(us, email) ==
    \E i \in DOMAIN us : us[i].email = email

\* The response that ends a request.
response(email, status, detail, body) ==
    [state |-> "done", email |-> email, status |-> status,
     detail |-> detail, body |-> body]

beside_users == <<alert_vars, monitor_vars, table, analytics_vars>>

\* main.create_user up to its lookup: HTTPException(400) when the email is
\* found, otherwise crud.create_user is called.
CreateUser(c) ==
    /\ req[c].state \in {"none", "done"}
    /\ \E email \in Emails :
        req' = [req EXCEPT ![c] =
                  IF get_user_by_email(users, email) # 0
                  THEN response(email, 400, "Email already registered", "")
                  ELSE [state |-> "main_checked", email |-> email,
                        status |-> 0, detail |-> "", body |-> ""]]
    /\ UNCHANGED users
    /\ UNCHANGED beside_users

\* crud.create_user up to its lookup: ValueError when the email is found,
\* which no handler catches (500).
CrudCheck(c) ==
    /\ req[c].state = "main_checked"
    /\ req' = [req EXCEPT ![c] =
                 IF get_user_by_email(users, req[c].email) # 0
                 THEN response(req[c].email, 500, "Internal Server Error", "")
                 ELSE [req[c] EXCEPT !.state = "crud_checked"]]
    /\ UNCHANGED users
    /\ UNCHANGED beside_users

\* db.add, db.commit, db.refresh, return db_user: IntegrityError (500) when
\* the unique index rejects the row, otherwise the row is in and the
\* response carries its email.
Commit(c) ==
    /\ req[c].state = "crud_checked"
    /\ IF violates_unique(users, req[c].email)
       THEN /\ req' = [req EXCEPT ![c] =
                         response(req[c].email, 500, "Internal Server Error",
                                  "")]
            /\ UNCHANGED users
       ELSE /\ users' = Append(users, [id |-> Len(users) + 1,
                                       email |-> req[c].email,
                                       is_active |-> TRUE])
            /\ req' = [req EXCEPT ![c] =
                         response(req[c].email, 200, "", req[c].email)]
    /\ UNCHANGED beside_users

(***************************************************************************)
(* Specifications.                                                         *)
(***************************************************************************)
\* What a call on the AlertManager alone leaves as it is.
beside_manager == <<monitor_vars, table, analytics_vars, user_vars>>

Next ==
    \/ AddAlert /\ UNCHANGED beside_manager
    \/ RemoveAlert /\ UNCHANGED beside_manager
    \/ StartCheck /\ UNCHANGED beside_manager
    \/ FetchError /\ UNCHANGED beside_manager
    \/ FetchPrice /\ UNCHANGED beside_manager
    \/ NotTriggered /\ UNCHANGED beside_manager
    \/ TriggerAlert /\ UNCHANGED beside_manager
    \/ MarkAndSave /\ UNCHANGED beside_manager

\* One AlertManager driven through its operations, no crash.
Spec ==
    Init /\ [][Next]_vars

NextCrash ==
    \/ Next
    \/ Crash /\ UNCHANGED beside_manager

\* The same, with the process killed and restarted at any point.
SpecCrash ==
    Init /\ [][NextCrash]_vars

NextMonitor ==
    \/ mon = "off" /\ AddAlert /\ UNCHANGED beside_manager
    \/ mon = "off" /\ RemoveAlert /\ UNCHANGED beside_manager
    \/ StartMonitor
    \/ RunPendingIdle
    \/ CheckJob
    \/ Sleep
    \/ JobTick
    \/ job(StartCheck)
    \/ job(FetchError)
    \/ job(FetchPrice)
    \/ job(NotTriggered)
    \/ job(TriggerAlert)
    \/ job(MarkAndSave)
    \/ KeyboardInterrupt

\* Alerts are added and removed, then the monitor runs until it is stopped.
SpecMonitor ==
    Init /\ [][NextMonitor]_vars

NextShared ==
    \/ CliAddAlert
    \/ CliRemoveAlert
    \/ StartMonitor
    \/ RunPendingIdle
    \/ CheckJob
    \/ Sleep
    \/ job(StartCheck)
    \/ job(FetchError)
    \/ job(FetchPrice)
    \/ job(NotTriggered)
    \/ job(TriggerAlert)
    \/ job(MarkAndSave)

\* The monitor runs in one process while the command line, run again and
\* again, adds and removes alerts in the same file.
SpecShared ==
    Init /\ [][NextShared]_vars

\* An alert whose condition some price can meet is added before the monitor
\* is started.
AddBeforeMonitor ==
    /\ mon = "off"
    /\ AddAlert
    /\ alerts'[Len(alerts')].condition \in {"above", "below"}
    /\ UNCHANGED beside_manager

\* The fetch succeeds with a price that meets the alert's condition.
FetchMeets ==
    /\ job(FetchPrice)
    /\ triggered'

\* The notification goes out.
EmitSucceeds ==
    /\ job(TriggerAlert)
    /\ pc' = "save"

\* The steps of the monitor's loop when every fetch meets the condition and
\* no notification fails; a write may still fail.
MonitorRuns ==
    \/ RunPendingIdle
    \/ CheckJob
    \/ Sleep
    \/ job(StartCheck)
    \/ FetchMeets
    \/ EmitSucceeds
    \/ job(MarkAndSave)

NextLive ==
    \/ AddBeforeMonitor
    \/ StartMonitor
    \/ MonitorRuns

\* The monitor, once started, is never stopped and keeps taking steps: the
\* loop of start_alert_monitor has no exit but Ctrl+C.
SpecLive ==
    Init /\ [][NextLive]_vars /\ WF_vars(MonitorRuns)

NextAnalytics ==
    \/ CalculateBasicMetrics
    \/ CalculatePositionMetrics
    \/ GetBestWorstPerformers
    \/ CalculateRiskMetrics

\* One PortfolioAnalyzer on a loaded portfolio, its methods called in any
\* order.
SpecAnalytics ==
    InitAnalytics /\ [][NextAnalytics]_vars

NextUsers ==
    \/ \E c \in Clients : CreateUser(c)
    \/ \E c \in Clients : CrudCheck(c)
    \/ \E c \in Clients : Commit(c)

\* Clients that post to /users/ one request after another, concurrently
\* with each other.
SpecUsers ==
    Init /\ [][NextUsers]_vars

\* What a call on the AlertManager leaves as it is when the last table
\* printed is followed.
beside_listing == <<monitor_vars, analytics_vars, user_vars>>

NextList ==
    \/ AddAlert /\ table' = no_table /\ UNCHANGED beside_listing
    \/ RemoveAlert /\ table' = no_table /\ UNCHANGED beside_listing
    \/ StartCheck /\ table' = no_table /\ UNCHANGED beside_listing
    \/ FetchError /\ table' = no_table /\ UNCHANGED beside_listing
    \/ FetchPrice /\ table' = no_table /\ UNCHANGED beside_listing
    \/ NotTriggered /\ table' = no_table /\ UNCHANGED beside_listing
    \/ TriggerAlert /\ table' = no_table /\ UNCHANGED beside_listing
    \/ MarkAndSave /\ table' = no_table /\ UNCHANGED beside_listing
    \/ ListAlerts

\* One AlertManager whose alerts are listed between the other calls.
SpecList ==
    Init /\ [][NextList]_vars

(***************************************************************************)
(* Vocabulary of the properties.                                           *)
(***************************************************************************)
\* The records of a collection, as a set.
records_of(as) ==
    {as[i] : i \in DOMAIN as}

\* The positions of a snapshot, as a set.
positions_in(snapshot) ==
    {snapshot[k] : k \in DOMAIN snapshot}

\* The price meets the alert's condition.
price_meets(a, price) ==
    \/ a.condition = "below" /\ price <= a.target_price
    \/ a.condition = "above" /\ price >= a.target_price

\* The step leaves the loop body for the next alert of the snapshot, or
\* returns from check_alerts when there is none.
goes_on_with_loop ==
    IF it < Len(active_alerts)
    THEN pc' = "fetch" /\ it' = it + 1 /\ alert' = active_alerts[it + 1]
    ELSE pc' = "idle" /\ ret' = "None"

\* The positions fetched when the current step is taken.
fetched_by_now ==
    fetched \cup (IF pc = "fetch" THEN {alert} ELSE {})

\* check_alerts returns with this step.
check_returns ==
    pc # "idle" /\ pc' = "idle" /\ ret' # "restarted"

(***************************************************************************)
(* C1.  In check_alerts, once the price of an active alert is fetched, a   *)
(* "below" alert is taken to trigger exactly when current_price <=         *)
(* target_price and an "above" alert exactly when current_price >=         *)
(* target_price; the notification and the mark are only reached with such  *)
(* a price.                                                                *)
(***************************************************************************)
C1_TriggerIffPriceMeetsTarget ==
    /\ pc = "evaluated" =>
        /\ alerts[alert].condition = "below" =>
            (triggered <=> current_price <= alerts[alert].target_price)
        /\ alerts[alert].condition = "above" =>
            (triggered <=> current_price >= alerts[alert].target_price)
    /\ pc = "save" =>
        /\ triggered
        /\ price_meets(alerts[alert], current_price)

\* An "above" alert reaches the mark with a price equal to its target.
C1_Witness ==
    /\ pc = "save"
    /\ alerts[alert].condition = "above"
    /\ alerts[alert].target_price > 0
    /\ current_price = alerts[alert].target_price

(***************************************************************************)
(* C2.  Over any sequence of add_alert, remove_alert and check_alerts      *)
(* calls and any prices, every alert is notified at most once, and an      *)
(* alert that is marked triggered has had its one notification: later      *)
(* cycles leave it out.                                                    *)
(***************************************************************************)
C2_NotifiedAtMostOnce ==
    /\ \A c \in Stamps : notified[c] <= 1
    /\ \A i \in DOMAIN alerts :
        alerts[i].triggered => notified[alerts[i].created_at] = 1

\* A later cycle, whose snapshot leaves out an alert triggered before, is
\* about to notify for another alert.
C2_Witness ==
    /\ pc = "evaluated"
    /\ triggered
    /\ \E i \in DOMAIN alerts :
        /\ alerts[i].triggered
        /\ i \notin positions_in(active_alerts)
        /\ price_meets(alerts[i], current_price)

(***************************************************************************)
(* C3.  A record that has triggered = TRUE, in memory or in the file,      *)
(* never has triggered = FALSE after a further step of add_alert,          *)
(* remove_alert or check_alerts.                                           *)
(***************************************************************************)
stays_triggered(before, after) ==
    \A a \in records_of(before), b \in records_of(after) :
        (a.created_at = b.created_at /\ a.triggered) => b.triggered

C3_TriggeredIsMonotonic ==
    [][/\ stays_triggered(alerts, alerts')
       /\ stays_triggered(store.price_alerts, store'.price_alerts)]_vars

\* A triggered record has been through an add_alert or remove_alert.
C3_Witness ==
    /\ pc = "idle"
    /\ ret = "True"
    /\ Len(alerts) = 2
    /\ alerts[1].triggered
    /\ ~alerts[2].triggered

(***************************************************************************)
(* C4.  No two alerts of the collection have the same id.                  *)
(***************************************************************************)
C4_IdsAreUnique ==
    \A i, j \in DOMAIN alerts : i # j => alerts[i].id # alerts[j].id

(***************************************************************************)
(* C5.  No alert with a condition other than above/below or with a         *)
(* target_price that is not > 0 is ever in the collection or in the file.  *)
(***************************************************************************)
well_formed(a) ==
    /\ a.condition \in {"above", "below"}
    /\ a.target_price > 0

C5_MalformedNeverStored ==
    \A a \in records_of(alerts) \cup records_of(store.price_alerts) :
        well_formed(a)

(***************************************************************************)
(* C6.  A step of check_alerts in which fetch_stock_data returns an error  *)
(* leaves the alerts, the file and the notifications as they are and goes  *)
(* on with the next alert of the snapshot; check_alerts returns only when  *)
(* every alert of its snapshot has been fetched, and returns None.         *)
(***************************************************************************)
C6_FetchErrorSkipsOneAlert ==
    [][/\ (pc = "fetch" /\ pc' # "evaluated") =>
            /\ UNCHANGED <<alerts, store, notified>>
            /\ goes_on_with_loop
       /\ check_returns =>
            /\ fetched_by_now = positions_in(active_alerts)
            /\ ret' = "None"]_vars

\* The second alert of a cycle is up after the fetch for the first failed.
C6_Witness ==
    /\ pc = "fetch"
    /\ it = 2
    /\ stock_data = "error"
    /\ ~alerts[active_alerts[1]].triggered

(***************************************************************************)
(* C7.  After a restart, every alert for which a notification was emitted  *)
(* is loaded with triggered = TRUE.                                        *)
(***************************************************************************)
C7_NotifiedSurvivesCrash ==
    ret = "restarted" =>
        \A i \in DOMAIN alerts :
            notified[alerts[i].created_at] > 0 => alerts[i].triggered

(***************************************************************************)
(* C8.  remove_alert with an id that no alert of the collection has        *)
(* returns False and leaves the collection and the file as they are.       *)
(***************************************************************************)
C8_RemoveUnknownChangesNothing ==
    [][\A alert_id \in IdInputs :
        (/\ pc = "idle"
         /\ positions_of(alerts, alert_id) = {}
         /\ remove_alert(alert_id)) =>
            /\ ret' = "False"
            /\ UNCHANGED <<alerts, store>>]_vars

\* remove_alert has returned False while the collection in memory differs
\* from the file's: a save would have shown.
C8_Witness ==
    /\ ret = "False"
    /\ alerts # <<>>
    /\ alerts # load_alerts(store)

(***************************************************************************)
(* C9.  remove_alert with an id that some alert has removes exactly one    *)
(* record, one with that id, and keeps the others and their order; it      *)
(* returns True, unless the write of the file raises.                      *)
(***************************************************************************)
removes_one(before, after, alert_id) ==
    \E k \in DOMAIN before :
        /\ before[k].id = alert_id
        /\ Len(after) = Len(before) - 1
        /\ \A j \in 1 .. (k - 1) : after[j] = before[j]
        /\ \A j \in k .. Len(after) : after[j] = before[j + 1]

C10_EmitFailureStaysInside ==
    [][/\ (pc = "evaluated" /\ triggered /\ pc' # "save") =>
            /\ goes_on_with_loop
            /\ ret' # "raised"
       /\ check_returns =>
            /\ it = Len(active_alerts)
            /\ ret' = "None"]_vars

\* The second alert of a cycle is up after the first was to trigger and its
\* notification raised: the first is neither notified nor marked.
C10_Witness ==
    /\ pc = "fetch"
    /\ it = 2
    /\ stock_data = "price"
    /\ triggered
    /\ ~alerts[active_alerts[1]].triggered
    /\ notified[alerts[active_alerts[1]].created_at] = 0


(***************************************************************************)
(* C11.  A failed write during a cycle is retried once: after a cycle in   *)
(* which at most one write has failed, every record marked triggered in    *)
(* memory is marked triggered in the file as well.                         *)
(***************************************************************************)
C11_SingleWriteFailureIsRepaired ==
    (pc = "idle" /\ ret = "None" /\ faults <= 1) =>
        \A i \in DOMAIN alerts :
            alerts[i].triggered =>
                /\ store.exists
                /\ i \in DOMAIN store.price_alerts
                /\ store.price_alerts[i].triggered

(***************************************************************************)
(* C14.  An add_alert call that returns True has appended one record,      *)
(* untriggered and with an upper-case symbol, after the records that were  *)
(* there, which are unchanged and in the same order; the file holds the    *)
(* new record, in the same place.                                          *)
(***************************************************************************)
UpperCase == {"X", "Y"}

C14_AddAppendsOneAndPersists ==
    [][(clock' = clock + 1 /\ ret' = "True") =>
          /\ Len(alerts') = Len(alerts) + 1
          /\ SubSeq(alerts', 1, Len(alerts)) = alerts
          /\ alerts'[Len(alerts')].triggered = FALSE
          /\ alerts'[Len(alerts')].symbol \in UpperCase
          /\ store'.exists
          /\ Len(store'.price_alerts) = Len(alerts')
          /\ store'.price_alerts[Len(alerts')] = alerts'[Len(alerts')]]_vars

\* add_alert has just returned True on a collection that held a record.
C14_Witness ==
    /\ pc = "idle"
    /\ ret = "True"
    /\ Len(alerts) >= 2
    /\ alerts[Len(alerts)].created_at = clock
    /\ store = saved_file(alerts)

(***************************************************************************)
(* C20.  While check_alerts fetches the price for an alert or evaluates    *)
(* its condition, that alert is not marked triggered: an alert triggered   *)
(* before the cycle started is not in the cycle.                           *)
(***************************************************************************)
C20_TriggeredNeverEvaluated ==
    pc \in {"fetch", "evaluated"} =>
        /\ alert \in DOMAIN alerts
        /\ ~alerts[alert].triggered
        /\ \A i \in fetched : i = alert \/ i \in positions_in(active_alerts)

\* A cycle that started after an alert had triggered is fetching the price
\* for another alert.
C20_Witness ==
    /\ pc = "fetch"
    /\ \E i \in DOMAIN alerts :
        /\ alerts[i].triggered
        /\ i \notin positions_in(active_alerts)
        /\ i \notin fetched


(***************************************************************************)
(* C15.  The table list_alerts prints has one row for each untriggered     *)
(* record and no other row, in the order in which the records were         *)
(* created, after any sequence of add_alert, remove_alert and check_alerts *)
(* calls.                                                                  *)
(***************************************************************************)
untriggered(as) ==
    {i \in DOMAIN as : ~as[i].triggered}

shows(row, a) ==
    /\ row.id = a.id
    /\ row.symbol = a.symbol
    /\ row.condition = a.condition
    /\ row.target_price.units = a.target_price

C15_ListShowsUntriggeredInOrder ==
    table.title = "Active Price Alerts" =>
        \E f \in [DOMAIN table.rows -> DOMAIN alerts] :
            /\ {f[k] : k \in DOMAIN table.rows} = untriggered(alerts)
            /\ \A k, l \in DOMAIN table.rows :
                k < l => alerts[f[k]].created_at < alerts[f[l]].created_at
            /\ \A k \in DOMAIN table.rows : shows(table.rows[k], alerts[f[k]])

\* The table was printed while one record was triggered and another, created
\* later, was not.
C15_Witness ==
    /\ table.title = "Active Price Alerts"
    /\ Len(table.rows) = 1
    /\ \E i, j \in DOMAIN alerts :
        i < j /\ alerts[i].triggered /\ ~alerts[j].triggered


(***************************************************************************)
(* C12.  At most one check_job is in progress at any time, also when a     *)
(* check takes longer than check_interval: one is in progress exactly      *)
(* while the loop is inside run_pending's call of the job, and a check is  *)
(* started only when none is in progress.                                  *)
(***************************************************************************)
C12_CyclesNeverOverlap ==
    /\ running <= 1
    /\ running = 1 <=> mon = "job"
    /\ (pc # "idle" /\ mon # "stopped") => running = 1

\* A check has been running for longer than check_interval, the job is
\* overdue, and it is still the only one.
C12_Witness ==
    /\ mon = "job"
    /\ pc = "fetch"
    /\ elapsed > check_interval
    /\ wait = 0
    /\ running = 1

(***************************************************************************)
(* C13.  When the monitor has stopped on Ctrl+C, no check_alerts call is   *)
(* left unfinished: the check that was in progress when the signal came    *)
(* has gone through its remaining alerts and returned.                     *)
(***************************************************************************)
C13_StopLeavesNoCheckUnfinished ==
    mon = "stopped" => pc = "idle"


(***************************************************************************)
(* C16.  calculate_basic_metrics never raises; gain_loss_percent is 0 for  *)
(* an empty portfolio and for one whose total investment is 0, and         *)
(* (current_value - total_investment) / total_investment * 100 otherwise.  *)
(***************************************************************************)
invested(p) ==
    sum([i \in DOMAIN p.rows |-> p.rows[i].quantity * p.rows[i].buy_price])

worth(p) ==
    sum([i \in DOMAIN p.rows |->
           p.rows[i].quantity * p.rows[i].current_price])

is_zero(x) ==
    x.kind = "num" /\ x.num = 0 /\ x.den # 0

is_ratio(x, n, d) ==
    x.kind = "num" /\ x.den # 0 /\ x.num * d = n * x.den

C16_BasicMetricsNeverRaises ==
    out.op = "basic" =>
        /\ out.kind = "ok"
        /\ invested(portfolio) = 0 => is_zero(out.value.gain_loss_percent)
        /\ invested(portfolio) # 0 =>
               is_ratio(out.value.gain_loss_percent,
                        (worth(portfolio) - invested(portfolio)) * 100,
                        invested(portfolio))

(***************************************************************************)
(* C17.  calculate_risk_metrics does not raise; profit_factor is inf when  *)
(* there are gains and no losses, 0 when there are neither (an empty or a  *)
(* flat portfolio), and gains / losses otherwise.                          *)
(***************************************************************************)
gain_loss_of(row) ==
    row.quantity * row.current_price - row.quantity * row.buy_price

gain_sum(p) ==
    sum([i \in DOMAIN p.rows |->
           IF gain_loss_of(p.rows[i]) > 0 THEN gain_loss_of(p.rows[i]) ELSE 0])

loss_sum(p) ==
    sum([i \in DOMAIN p.rows |->
           IF gain_loss_of(p.rows[i]) < 0 THEN -gain_loss_of(p.rows[i]) ELSE 0])

C17_ProfitFactorOfFlatIsZero ==
    out.op = "risk" =>
        /\ out.kind = "ok"
        /\ (loss_sum(portfolio) = 0 /\ gain_sum(portfolio) > 0) =>
               out.value.profit_factor.kind = "inf"
        /\ (loss_sum(portfolio) = 0 /\ gain_sum(portfolio) = 0) =>
               is_zero(out.value.profit_factor)
        /\ loss_sum(portfolio) # 0 =>
               is_ratio(out.value.profit_factor, gain_sum(portfolio),
                        loss_sum(portfolio))

(***************************************************************************)
(* C18.  No method of PortfolioAnalyzer changes the frame it was given:    *)
(* rows, columns and values are the same after every call, whether it      *)
(* returns or raises.                                                      *)
(***************************************************************************)
C18_AnalyzerLeavesPortfolioAlone ==
    [][portfolio' = portfolio]_vars

\* calculate_position_metrics has returned a frame with the added columns
\* for a portfolio with rows, which has none of them.
C18_Witness ==
    /\ out.op = "positions"
    /\ out.kind = "ok"
    /\ MetricColumns \subseteq out.value.columns
    /\ portfolio.rows # <<>>
    /\ portfolio.columns \cap MetricColumns = {}


(***************************************************************************)
(* C19.  No two rows of users have the same email.  A request whose email  *)
(* is registered when the request arrives is answered 400 "Email already   *)
(* registered" and leaves users as it was; a request that reaches the      *)
(* commit with an email no row has is answered 200 with that email, and    *)
(* users gains exactly the row for it.                                     *)
(***************************************************************************)
registered(us) ==
    {us[i].email : i \in DOMAIN us}

arrives(c) ==
    /\ req[c].state \in {"none", "done"}
    /\ req'[c] # req[c]

C19_EmailsStayUnique ==
    [][/\ Cardinality(registered(users')) = Len(users')
       /\ \A c \in Clients :
           /\ (arrives(c) /\ req'[c].email \in registered(users)) =>
                  /\ req'[c].status = 400
                  /\ req'[c].detail = "Email already registered"
                  /\ users' = users
           /\ (req[c].state = "crud_checked" /\ req'[c].state = "done" /\
               req[c].email \notin registered(users)) =>
                  /\ req'[c].status = 200
                  /\ req'[c].body = req[c].email
                  /\ Len(users') = Len(users) + 1
                  /\ SubSeq(users', 1, Len(users)) = users
                  /\ users'[Len(users')].email = req[c].email
           /\ (req'[c].state = "done" /\ req'[c].status # 200 /\
               req'[c] # req[c]) => users' = users]_vars

\* The same email was posted twice, one request after the other: the first
\* was answered 200, the second 400, and users holds one row.
C19_Witness ==
    /\ req["c1"].state = "done"
    /\ req["c1"].status = 200
    /\ req["c2"].state = "done"
    /\ req["c2"].status = 400
    /\ req["c2"].email = req["c1"].email
    /\ req["c3"].state = "none"
    /\ Len(users) = 1


(***************************************************************************)
(* C27.  With one AlertManager and no other writer, whenever add_alert,    *)
(* remove_alert or check_alerts has returned, the file holds the same      *)
(* collection as the manager, also after a cycle in which a write failed.  *)
(***************************************************************************)
C27_FileEqualsMemoryAfterEveryCall ==
    (pc = "idle" /\ ret \in {"True", "False", "None"}) =>
        load_alerts(store) = alerts

(***************************************************************************)
(* C28.  When the notification for an alert that is to trigger raises, the *)
(* step changes neither the collection nor the file, so the alert is still *)
(* untriggered in both; and every cycle that starts takes every            *)
(* untriggered record into its snapshot, so the alert is fetched and       *)
(* evaluated again.                                                        *)
(***************************************************************************)
emit_fails ==
    pc = "evaluated" /\ triggered /\ notified' = notified

cycle_starts ==
    pc = "idle" /\ pc' = "fetch"

C28_EmitFailureLeavesAlertActive ==
    [][/\ emit_fails =>
            /\ alerts' = alerts
            /\ store' = store
            /\ ~alerts'[alert].triggered
            /\ pc' # "save"
       /\ cycle_starts =>
            positions_in(active_alerts') =
                {i \in DOMAIN alerts' : ~alerts'[i].triggered}]_vars

\* The notification for the first alert of the cycle raised at a price that
\* meets its target: the alert is untriggered in memory and in the file, and
\* the cycle is at its second alert.
C28_Witness ==
    /\ pc = "fetch"
    /\ it = 2
    /\ triggered
    /\ price_meets(alerts[active_alerts[1]], current_price)
    /\ ~alerts[active_alerts[1]].triggered
    /\ store = saved_file(alerts)
    /\ notified[alerts[active_alerts[1]].created_at] = 0

(***************************************************************************)
(* C29.  A step of check_alerts never changes the length or the order of   *)
(* the collection, and changes no record except by setting triggered on    *)
(* the alert that triggers; the file is written only in the step that      *)
(* marks an alert, with the collection as it is then.                      *)
(***************************************************************************)
check_step ==
    pc # "idle" \/ pc' # "idle" \/ ret' = "None"

C29_CheckChangesOnlyTriggered ==
    [][check_step =>
          /\ Len(alerts') = Len(alerts)
          /\ \A i \in DOMAIN alerts :
              \/ alerts'[i] = alerts[i]
              \/ /\ pc = "save"
                 /\ i = alert
                 /\ alerts'[i] = [alerts[i] EXCEPT !.triggered = TRUE]
          /\ store' # store =>
                 /\ pc = "save"
                 /\ store' = saved_file(alerts')]_vars

\* A cycle over two alerts with the same id has marked and saved the first
\* and is at the second, which is as it was.
C29_Witness ==
    /\ pc = "fetch"
    /\ it = 2
    /\ Len(alerts) = 2
    /\ alerts[1].id = alerts[2].id
    /\ alerts[1].triggered
    /\ ~alerts[2].triggered
    /\ store = saved_file(alerts)


(***************************************************************************)
(* C23.  In the frame calculate_position_metrics returns, a position whose *)
(* investment is 0 has gain_loss_percent 0 (not nan, not inf), and every   *)
(* other position has gain_loss / investment * 100.                        *)
(***************************************************************************)
investment_of(row) ==
    row.quantity * row.buy_price

C23_ZeroInvestmentGivesZeroPercent ==
    (out.op = "positions" /\ out.kind = "ok") =>
        \A i \in DOMAIN out.value.rows :
            IF investment_of(portfolio.rows[i]) = 0
            THEN is_zero(out.value.rows[i].gain_loss_percent)
            ELSE is_ratio(out.value.rows[i].gain_loss_percent,
                          gain_loss_of(portfolio.rows[i]) * 100,
                          investment_of(portfolio.rows[i]))

(***************************************************************************)
(* C24.  In the frame calculate_position_metrics returns, weight is        *)
(* current_value / sum of current_value * 100 when the sum is not 0 and 0  *)
(* for every position when it is 0; calculate_risk_metrics then returns    *)
(* max_weight 0.                                                           *)
(***************************************************************************)
value_of(row) ==
    row.quantity * row.current_price

C24_ZeroTotalGivesZeroWeight ==
    /\ (out.op = "positions" /\ out.kind = "ok") =>
           \A i \in DOMAIN out.value.rows :
               IF worth(portfolio) = 0
               THEN is_zero(out.value.rows[i].weight)
               ELSE is_ratio(out.value.rows[i].weight,
                             value_of(portfolio.rows[i]) * 100,
                             worth(portfolio))
    /\ (out.op = "risk" /\ portfolio.rows # <<>> /\ worth(portfolio) = 0) =>
           /\ out.kind = "ok"
           /\ is_zero(out.value.max_weight)


(***************************************************************************)
(* C25.  When get_best_worst_performers returns, the best performer is the *)
(* first position, in input order, whose gain_loss_percent no position     *)
(* exceeds, and the worst performer the first one whose gain_loss_percent  *)
(* no position goes below.  Positions whose percentage is nan (0 / 0) take *)
(* no part in the comparison unless every position is one.                 *)
(***************************************************************************)
\* gain_loss_percent is a number or an infinity.
has_percent(row) ==
    investment_of(row) # 0 \/ gain_loss_of(row) # 0

\* gain_loss_percent of r is at most that of s, by cross-multiplication.
percent_leq(r, s) ==
    \/ investment_of(r) = 0 /\ gain_loss_of(r) < 0
    \/ investment_of(s) = 0 /\ gain_loss_of(s) > 0
    \/ /\ investment_of(r) > 0
       /\ investment_of(s) > 0
       /\ gain_loss_of(r) * investment_of(s) <=
              gain_loss_of(s) * investment_of(r)

compared(rows) ==
    IF \E i \in DOMAIN rows : has_percent(rows[i])
    THEN {i \in DOMAIN rows : has_percent(rows[i])}
    ELSE DOMAIN rows

is_first_best(rows, b) ==
    /\ b \in compared(rows)
    /\ \A j \in compared(rows) :
        /\ has_percent(rows[j]) => percent_leq(rows[j], rows[b])
        /\ (j < b /\ has_percent(rows[j])) => ~percent_leq(rows[b], rows[j])
    /\ \A j \in compared(rows) : ~has_percent(rows[j]) => b <= j

is_first_worst(rows, w) ==
    /\ w \in compared(rows)
    /\ \A j \in compared(rows) :
        /\ has_percent(rows[j]) => percent_leq(rows[w], rows[j])
        /\ (j < w /\ has_percent(rows[j])) => ~percent_leq(rows[j], rows[w])
    /\ \A j \in compared(rows) : ~has_percent(rows[j]) => w <= j

C25_BestWorstFirstOfTies ==
    (out.op = "best_worst" /\ out.kind = "ok") =>
        \E b, w \in DOMAIN portfolio.rows :
            /\ out.value.best_performer = portfolio.rows[b].symbol
            /\ out.value.worst_performer = portfolio.rows[w].symbol
            /\ is_first_best(portfolio.rows, b)
            /\ is_first_worst(portfolio.rows, w)

\* Two positions tie for the largest percentage, a number: the first one is
\* returned as best.
C25_Witness ==
    /\ out.op = "best_worst"
    /\ out.kind = "ok"
    /\ Len(portfolio.rows) = 2
    /\ investment_of(portfolio.rows[1]) > 0
    /\ investment_of(portfolio.rows[2]) > 0
    /\ percent_leq(portfolio.rows[1], portfolio.rows[2])
    /\ percent_leq(portfolio.rows[2], portfolio.rows[1])
    /\ out.value.best_performer = portfolio.rows[1].symbol

(***************************************************************************)
(* C26.  When calculate_risk_metrics returns, winning_positions is the     *)
(* number of positions with gain_loss > 0 and losing_positions the number  *)
(* with gain_loss < 0; a position with gain_loss 0 is in neither count, so *)
(* the two add up to at most the number of positions.                      *)
(***************************************************************************)
C26_WinningLosingAreStrict ==
    (out.op = "risk" /\ out.kind = "ok") =>
        /\ out.value.winning_positions =
               Cardinality({i \in DOMAIN portfolio.rows :
                              gain_loss_of(portfolio.rows[i]) > 0})
        /\ out.value.losing_positions =
               Cardinality({i \in DOMAIN portfolio.rows :
                              gain_loss_of(portfolio.rows[i]) < 0})
        /\ out.value.winning_positions + out.value.losing_positions <=
               Len(portfolio.rows)

\* A winning position and a flat one: one is counted, the other is not.
C26_Witness ==
    /\ out.op = "risk"
    /\ out.kind = "ok"
    /\ Len(portfolio.rows) = 2
    /\ gain_loss_of(portfolio.rows[1]) = 0
    /\ gain_loss_of(portfolio.rows[2]) > 0
    /\ out.value.winning_positions = 1
    /\ out.value.losing_positions = 0


(***************************************************************************)
(* C21.  Each cycle of the monitor evaluates exactly the alerts that are   *)
(* untriggered in the file when the cycle starts, so an alert another      *)
(* process adds to the file while the monitor runs is in the next cycle.   *)
(***************************************************************************)
stamps_of(as) ==
    {as[i].created_at : i \in DOMAIN as}

job_begins ==
    mon = "job" /\ pc = "idle" /\ (pc' = "fetch" \/ mon' = "sleep")

C21_CycleEvaluatesTheFile ==
    [][job_begins =>
          {alerts'[k].created_at : k \in positions_in(active_alerts')} =
              {a.created_at : a \in {r \in records_of(load_alerts(store)) :
                                        ~r.triggered}}]_vars

(***************************************************************************)
(* C22.  A write of the monitor's check_alerts loses nothing another       *)
(* process has written: every alert that is in the file before the write   *)
(* is in it afterwards, and no alert that is not in the file before the    *)
(* write is in it afterwards.                                              *)
(***************************************************************************)
C22_MonitorWriteLosesNothing ==
    [][(mon = "job" /\ pc = "save" /\ store' # store) =>
          stamps_of(load_alerts(store')) = stamps_of(load_alerts(store))]_vars


(***************************************************************************)
(* C30.  While the monitor runs, every fetch meets the condition and no    *)
(* notification fails, an alert that is active in the monitor is           *)
(* eventually marked triggered both in memory and in the file.             *)
(***************************************************************************)
is_active(c) ==
    \E i \in DOMAIN alerts :
        alerts[i].created_at = c /\ ~alerts[i].triggered

triggered_in(as, c) ==
    \E i \in DOMAIN as : as[i].created_at = c /\ as[i].triggered

C30_ActiveAlertEventuallyTriggered ==
    \A c \in Stamps :
        (mon # "off" /\ is_active(c)) ~>
            (triggered_in(alerts, c) /\ triggered_in(load_alerts(store), c))

====
